---- MODULE Spec2Model ----
(***************************************************************************)
(* Model of the change-streams document store                              *)
(*   src/src/change_streams/store.py  (KeyValueStore)                      *)
(*   src/src/change_streams/http.py   (the handlers that call it)          *)
(*                                                                         *)
(* Python dicts keep insertion order, and get_changes_after walks them in  *)
(* that order before sorting, so a dict is modelled as a sequence of       *)
(* entries: the store is a sequence of [name, docs] (the collections) and  *)
(* docs is a sequence of [key, versions] (the version logs).               *)
(*                                                                         *)
(* Document.timestamp is left out: it is written from time.time() and the  *)
(* only code that reads it is line 258 of garbage_collect, which lies      *)
(* behind the AttributeError of line 246 (see garbage_collect below).      *)
(*                                                                         *)
(* The handlers of http.py are coroutines without an await, so each        *)
(* request is one step.  cursor and received belong to a client that       *)
(* tails GET /changes; only SpecTail lets it move.                         *)
(***************************************************************************)
EXTENDS Integers, Sequences, FiniteSets, TLC

\* ------------------------------------------------------------- bounds ----
\* cap of the transaction-id counter (the code's counter is unbounded)
MaxTx == 3
\* largest max_versions handed to garbage_collect
MaxKeep == 1

\* ------------------------------------------------------------- inputs ----
\* Python's None (an absent query parameter, a JSON null value)
None == "<None>"
Collections == {"a", "b"}
Keys == {"x", "y"}
\* the documents clients address: two keys of one collection, one of another
Paths == {<<"a", "x">>, <<"a", "y">>, <<"b", "x">>}
\* values a client writes; None is JSON null, which upsert accepts
Values == {None, "A"}
\* collection= of the change feed: absent, known names, an unknown name
CollectionInputs == Collections \cup {None, "zz"}
\* where= of the change feed: absent, a clause
WhereInputs == {None, "value = 'A'"}
\* max_age_seconds of garbage_collect, an Optional[float]: <<>> is None
MaxAgeInputs == {<<>>, <<0>>}
\* start= of the change feed
Starts == 0..MaxTx
\* a limit that no result reaches
Unbounded == MaxTx + 1
\* limit= of the change feed (http.py: ge=1)
Limits == 1..Unbounded

\* -------------------------------------------------------------- state ----
VARIABLES
    store,                          \* self.store
    current_transaction_id,         \* self.current_transaction_id
    highest_removed_tombstone_id,   \* self.highest_removed_tombstone_id
    disk,                           \* the snapshot file at storage_path
    appended,                       \* history: every record ever appended
    discarded,                      \* history: every record erased from a log
    cursor,                         \* a tailing client: its start= value
    received                        \* a tailing client: the changes it got

\* the state of a client of the change feed
cvars == <<cursor, received>>

vars == <<store, current_transaction_id, highest_removed_tombstone_id,
          disk, appended, discarded, cursor, received>>

\* Python truthiness of an Optional[str]
Truthy(x) == x # None /\ x # ""

\* --------------------------------------------------- dict operations ----
\* position of collection c in the store, 0 when absent
ColIndex(s, c) ==
    IF \E i \in 1..Len(s) : s[i].name = c
    THEN CHOOSE i \in 1..Len(s) : s[i].name = c
    ELSE 0

\* position of key k in a collection's dict, 0 when absent
KeyIndex(d, k) ==
    IF \E i \in 1..Len(d) : d[i].key = k
    THEN CHOOSE i \in 1..Len(d) : d[i].key = k
    ELSE 0

\* collection in self.store
HasCollection(s, c) == ColIndex(s, c) # 0

\* collection in self.store and key in self.store[collection]
HasKey(s, c, k) ==
    /\ HasCollection(s, c)
    /\ KeyIndex(s[ColIndex(s, c)].docs, k) # 0

\* self.store[collection][key]
VersionsOf(s, c, k) ==
    LET d == s[ColIndex(s, c)].docs IN d[KeyIndex(d, k)].versions

\* self.store[collection][key] = versions
SetVersions(s, c, k, versions) ==
    LET ci == ColIndex(s, c)
        ki == KeyIndex(s[ci].docs, k)
    IN [s EXCEPT ![ci].docs[ki].versions = versions]

DelAt_first(d, i) == Tail(d)

\* del d[i]
DelAt(d, i) == [j \in 1..(Len(d) - 1) |-> IF j < i THEN d[j] ELSE d[j + 1]]

\* ------------------------------------------------------ persistence ----
NoFile == [exists |-> FALSE, data |-> <<>>, last_transaction_id |-> 0]

\* _save_to_disk writing the counter as it was before the allocation
_save_to_disk_stale(s, cur) ==
    [exists |-> TRUE,
     data |-> SelectSeq(s, LAMBDA e : e.name # "last_transaction_id"),
     last_transaction_id |-> IF cur > 0 THEN cur - 1 ELSE 0]

\* what _save_to_disk leaves in the file: the collections, then the key
\* 'last_transaction_id', which replaces a collection of that name
_save_to_disk(s, cur) ==
    [exists |-> TRUE,
     data |-> SelectSeq(s, LAMBDA e : e.name # "last_transaction_id"),
     last_transaction_id |-> cur]

\* ------------------------------------------------------- allocator ----
_get_next_transaction_id_same(cur) == cur

_get_next_transaction_id(cur) == cur + 1

\* version = len(self.store[collection][key]) + 1
NextVersion_len(versions) == Len(versions)

NextVersion_one(versions) == 1

NextVersion_last(versions) ==
    IF Len(versions) = 0 THEN 1 ELSE versions[Len(versions)].version

NextVersion(versions) == Len(versions) + 1

\* the store after "if collection not in self.store: self.store[collection] = {}"
\* and "if key not in self.store[collection]: self.store[collection][key] = []"
EnsureLog(s, c, k) ==
    LET s1 == IF HasCollection(s, c) THEN s
              ELSE Append(s, [name |-> c, docs |-> <<>>])
        ci == ColIndex(s1, c)
    IN IF KeyIndex(s1[ci].docs, k) # 0 THEN s1
       ELSE [s1 EXCEPT ![ci].docs = Append(@, [key |-> k, versions |-> <<>>])]

\* ------------------------------------------------------------ writes ----
upsert(collection, key, value) ==
    /\ current_transaction_id < MaxTx
    /\ LET s1 == EnsureLog(store, collection, key)
           versions == VersionsOf(s1, collection, key)
           txid == _get_next_transaction_id(current_transaction_id)
           doc == [key |-> key, value |-> value,
                   version |-> NextVersion(versions),
                   transaction_id |-> txid]
           s2 == SetVersions(s1, collection, key, Append(versions, doc))
       IN /\ store' = s2
          /\ current_transaction_id' = txid
          /\ disk' = _save_to_disk(s2, txid)
          /\ appended' = appended \cup
                 {[collection |-> collection, key |-> key, doc |-> doc]}
    /\ UNCHANGED <<highest_removed_tombstone_id, discarded>>

\* what delete returns
delete_result(s, collection, key) == HasKey(s, collection, key)

delete(collection, key) ==
    IF HasKey(store, collection, key)
    THEN /\ current_transaction_id < MaxTx
         /\ LET versions == VersionsOf(store, collection, key)
                txid == _get_next_transaction_id(current_transaction_id)
                tombstone == [key |-> key, value |-> None,
                              version |-> NextVersion(versions),
                              transaction_id |-> txid]
                s2 == SetVersions(store, collection, key,
                                  Append(versions, tombstone))
            IN /\ store' = s2
               /\ current_transaction_id' = txid
               /\ disk' = _save_to_disk(s2, txid)
               /\ appended' = appended \cup
                      {[collection |-> collection, key |-> key,
                        doc |-> tombstone]}
         /\ UNCHANGED <<highest_removed_tombstone_id, discarded>>
    ELSE UNCHANGED vars

\* lines 335-337: the watermark after evicting a log
EvictWatermark_first(wm, versions) ==
    IF versions[1].transaction_id > wm
    THEN versions[1].transaction_id ELSE wm

EvictWatermark_assign(wm, versions) ==
    versions[Len(versions)].transaction_id

EvictWatermark(wm, versions) ==
    LET last_tx_id == versions[Len(versions)].transaction_id
    IN IF last_tx_id > wm THEN last_tx_id ELSE wm

RemoveIfEmpty_keep(s, ci) == s

\* lines 343-344: "if not self.store[collection]: del self.store[collection]"
RemoveIfEmpty(s, ci) == IF Len(s[ci].docs) = 0 THEN DelAt(s, ci) ELSE s

\* what evict returns
evict_result(s, collection, key) == HasKey(s, collection, key)

evict(collection, key) ==
    IF HasKey(store, collection, key)
    THEN LET versions == VersionsOf(store, collection, key)
             ci == ColIndex(store, collection)
             ki == KeyIndex(store[ci].docs, key)
             s1 == [store EXCEPT ![ci].docs = DelAt(@, ki)]
             s2 == RemoveIfEmpty(s1, ci)
         IN /\ highest_removed_tombstone_id' =
                   EvictWatermark(highest_removed_tombstone_id, versions)
            /\ store' = s2
            /\ disk' = _save_to_disk(s2, current_transaction_id)
            /\ discarded' = discarded \cup
                   {[collection |-> collection, key |-> key,
                     doc |-> versions[i]] : i \in 1..Len(versions)}
            /\ UNCHANGED <<current_transaction_id, appended>>
    ELSE UNCHANGED vars

\* garbage_collect loops "for key in self.store": key is a collection name
\* and versions = self.store[key] is that collection's dict.  Line 246 calls
\* versions.sort(...), which a dict does not have: the first iteration
\* raises AttributeError before anything is pruned or saved.  On an empty
\* store the loop body never runs; the call saves and returns 0.
garbage_collect_result(s, max_versions, max_age_seconds) ==
    IF Len(s) = 0 THEN [raised |-> "none", removed_count |-> 0]
    ELSE [raised |-> "AttributeError", removed_count |-> 0]

\* the watermark a garbage_collect call leaves: lines 266-272 raise it only
\* for the records lines 248-262 removed, and no call gets that far with a
\* record (no loop iteration on an empty store, AttributeError otherwise)
garbage_collect_watermark(s, wm, max_versions, max_age_seconds) == wm

garbage_collect(max_versions, max_age_seconds) ==
    IF garbage_collect_result(store, max_versions,
                              max_age_seconds).raised = "none"
    THEN /\ disk' = _save_to_disk(store, current_transaction_id)
         /\ highest_removed_tombstone_id' =
                garbage_collect_watermark(store, highest_removed_tombstone_id,
                                          max_versions, max_age_seconds)
         /\ UNCHANGED <<store, current_transaction_id, appended, discarded>>
    ELSE UNCHANGED vars

\* _load_from_disk with the counter left at the 0 that __init__ gave it
_load_from_disk_nocounter(d) ==
    [store |-> IF d.exists THEN d.data ELSE <<>>,
     current_transaction_id |-> 0]

\* what _load_from_disk leaves in self.store and the counter: nothing when
\* the file is missing, else every top-level entry but 'last_transaction_id'
\* and the counter stored under that key
_load_from_disk(d) ==
    [store |-> IF d.exists THEN d.data ELSE <<>>,
     current_transaction_id |->
         IF d.exists THEN d.last_transaction_id ELSE 0]

\* __init__ with the watermark raised to the restored counter
KeyValueStore_init_watermark(d) ==
    [store |-> _load_from_disk(d).store,
     current_transaction_id |-> _load_from_disk(d).current_transaction_id,
     highest_removed_tombstone_id |->
         _load_from_disk(d).current_transaction_id]

\* KeyValueStore.__init__: the store is emptied, the counter and the
\* watermark are zeroed, and then _load_from_disk runs; the snapshot holds
\* no watermark, so the watermark stays 0
KeyValueStore_init(d) ==
    [store |-> _load_from_disk(d).store,
     current_transaction_id |-> _load_from_disk(d).current_transaction_id,
     highest_removed_tombstone_id |-> 0]

\* a new process: the module-level KeyValueStore() of http.py runs __init__
\* against the snapshot the old process left; clients keep their cursors
Restart ==
    /\ store' = KeyValueStore_init(disk).store
    /\ current_transaction_id' =
           KeyValueStore_init(disk).current_transaction_id
    /\ highest_removed_tombstone_id' =
           KeyValueStore_init(disk).highest_removed_tombstone_id
    /\ UNCHANGED <<disk, appended, discarded, cursor, received>>

\* ------------------------------------------------------------- reads ----
_infer_operation_version_first(doc) ==
    IF doc.version = 1 THEN "insert"
    ELSE IF doc.value = None THEN "delete"
    ELSE "update"

_infer_operation(doc) ==
    IF doc.value = None THEN "delete"
    ELSE IF doc.version = 1 THEN "insert"
    ELSE "update"

RECURSIVE Flatten(_)
\* the concatenation of a sequence of sequences (nested for loops)
Flatten(ss) == IF Len(ss) = 0 THEN <<>> ELSE Head(ss) \o Flatten(Tail(ss))

\* lines 182-185: the records of one collection in iteration order
DocsOfCollection(s, col) ==
    IF ~HasCollection(s, col) THEN <<>>
    ELSE CHOOSE docs \in
             {Flatten([i \in 1..Len(d) |-> d[i].versions]) :
                 d \in {s[ColIndex(s, col)].docs}} : TRUE

\* lines 179-185: every record the scan visits, in the order it visits them
ScanOrder(s, collection) ==
    LET collections == IF Truthy(collection) THEN <<collection>>
                       ELSE [i \in 1..Len(s) |-> s[i].name]
    IN CHOOSE docs \in
           {Flatten(per_collection) :
               per_collection \in
                   {[i \in 1..Len(collections) |->
                        DocsOfCollection(s, collections[i])]}} : TRUE

RECURSIVE InsertByTransactionId(_, _)
\* e placed behind every element whose transaction_id is not greater
InsertByTransactionId(sorted, e) ==
    IF Len(sorted) = 0 THEN <<e>>
    ELSE IF sorted[Len(sorted)].doc.transaction_id <= e.doc.transaction_id
         THEN Append(sorted, e)
         ELSE Append(InsertByTransactionId(SubSeq(sorted, 1, Len(sorted) - 1), e),
                     sorted[Len(sorted)])

SortByTransactionId_none(changes) == changes

RECURSIVE SortByTransactionId(_)
\* line 194: changes.sort(key=transaction_id), a stable ascending sort
\* (the argument and the sorted prefix are bound as values, see
\* get_changes_after)
SortByTransactionId(changes) ==
    LET Sorted(c) ==
            IF Len(c) = 0 THEN <<>>
            ELSE CHOOSE result \in
                     {InsertByTransactionId(sorted, c[Len(c)]) :
                         sorted \in {SortByTransactionId(
                                        SubSeq(c, 1, Len(c) - 1))}} : TRUE
    IN CHOOSE result \in {Sorted(c) : c \in {changes}} : TRUE

PySliceTo_short(seq, n) ==
    SubSeq(seq, 1, IF n - 1 < Len(seq) THEN n - 1 ELSE Len(seq))

\* seq[:n] of Python, n of either sign
PySliceTo(seq, n) ==
    IF n >= 0 THEN SubSeq(seq, 1, IF n < Len(seq) THEN n ELSE Len(seq))
    ELSE SubSeq(seq, 1, IF Len(seq) + n > 0 THEN Len(seq) + n ELSE 0)

\* get_changes_after keeping the record at the cursor as well
get_changes_after_inclusive(s, transaction_id, limit, where, collection) ==
    LET Changes(after) ==
            [i \in 1..Len(after) |->
                [doc |-> after[i], operation |-> _infer_operation(after[i])]]
        Result(after) ==
            IF Truthy(where) /\ Len(after) > 0
            THEN [raised |-> "AttributeError", changes |-> <<>>]
            ELSE CHOOSE result \in
                     {[raised |-> "none",
                       changes |-> PySliceTo(sorted, limit)] :
                         sorted \in {SortByTransactionId(Changes(after))}}
                     : TRUE
    IN CHOOSE result \in
           {Result(after) :
               after \in {SelectSeq(ScanOrder(s, collection),
                              LAMBDA doc :
                                  doc.transaction_id >= transaction_id)}}
           : TRUE

\* KeyValueStore.get_changes_after.  __init__ never sets self.query_parser,
\* so line 188 raises AttributeError for the first record past the cursor
\* when a where string is given; with no such record the loop ends quietly.
\* (after and sorted are bound as values of one-element sets, so that they
\* are computed once: under ENABLED TLC recomputes a LET definition at
\* every use)
get_changes_after(s, transaction_id, limit, where, collection) ==
    LET Changes(after) ==
            [i \in 1..Len(after) |->
                [doc |-> after[i], operation |-> _infer_operation(after[i])]]
        Result(after) ==
            IF Truthy(where) /\ Len(after) > 0
            THEN [raised |-> "AttributeError", changes |-> <<>>]
            ELSE CHOOSE result \in
                     {[raised |-> "none",
                       changes |-> PySliceTo(sorted, limit)] :
                         sorted \in {SortByTransactionId(Changes(after))}}
                     : TRUE
    IN CHOOSE result \in
           {Result(after) :
               after \in {SelectSeq(ScanOrder(s, collection),
                              LAMBDA doc :
                                  doc.transaction_id > transaction_id)}}
           : TRUE

\* get_changes reporting the watermark as max_transaction_id
get_changes_of_watermark(s, cur, wm, start, limit, where, collection) ==
    IF start < wm
    THEN [status |-> 200, changes |-> <<>>,
          max_transaction_id |-> wm,
          needs_rollback |-> TRUE]
    ELSE LET r == get_changes_after(s, start, limit, where, collection)
         IN IF r.raised # "none"
            THEN [status |-> 500, changes |-> <<>>,
                  max_transaction_id |-> 0, needs_rollback |-> FALSE]
            ELSE [status |-> 200,
                  changes |-> [i \in 1..Len(r.changes) |->
                      [key |-> r.changes[i].doc.key,
                       value |-> r.changes[i].doc.value,
                       version |-> r.changes[i].doc.version,
                       transaction_id |-> r.changes[i].doc.transaction_id,
                       operation |-> r.changes[i].operation]],
                  max_transaction_id |-> wm,
                  needs_rollback |-> FALSE]

\* http.py get_changes: the rollback guard, then the scan; the handler is
\* a coroutine without an await, so both run in one step of the event loop
get_changes_of(s, cur, wm, start, limit, where, collection) ==
    IF start < wm
    THEN [status |-> 200, changes |-> <<>>,
          max_transaction_id |-> cur,
          needs_rollback |-> TRUE]
    ELSE LET Response(r) ==
                 IF r.raised # "none"
                 THEN [status |-> 500, changes |-> <<>>,
                       max_transaction_id |-> 0, needs_rollback |-> FALSE]
                 ELSE [status |-> 200,
                       changes |-> [i \in 1..Len(r.changes) |->
                           [key |-> r.changes[i].doc.key,
                            value |-> r.changes[i].doc.value,
                            version |-> r.changes[i].doc.version,
                            transaction_id |->
                                r.changes[i].doc.transaction_id,
                            operation |-> r.changes[i].operation]],
                       max_transaction_id |-> cur,
                       needs_rollback |-> FALSE]
         IN CHOOSE response \in
                {Response(r) :
                    r \in {get_changes_after(s, start, limit, where,
                                             collection)}} : TRUE

\* the handler run against the module-level store of the process
get_changes(start, limit, where, collection) ==
    get_changes_of(store, current_transaction_id,
                   highest_removed_tombstone_id,
                   start, limit, where, collection)

get_first(s, collection, key, version) ==
    IF ~HasKey(s, collection, key) THEN <<>>
    ELSE LET versions == VersionsOf(s, collection, key)
         IN IF Len(versions) = 0 \/ versions[1].value = None THEN <<>>
            ELSE <<versions[1]>>

\* KeyValueStore.get; version is <<>> for None or <<v>>, the result is
\* <<>> for None or <<doc>>
get(s, collection, key, version) ==
    IF ~HasKey(s, collection, key) THEN <<>>
    ELSE LET versions == VersionsOf(s, collection, key)
         IN IF Len(versions) = 0 THEN <<>>
            ELSE IF version = <<>>
            THEN LET latest == versions[Len(versions)]
                 IN IF latest.value = None THEN <<>> ELSE <<latest>>
            ELSE LET hits == SelectSeq(versions,
                                 LAMBDA doc : doc.version = version[1])
                 IN IF Len(hits) = 0 THEN <<>>
                    ELSE IF hits[1].value = None THEN <<>>
                    ELSE <<hits[1]>>

\* KeyValueStore.list_documents(latest_only).  It walks self.store.items():
\* each "versions" is a collection's dict, so versions[-1] raises
\* KeyError(-1) for every collection that holds a key.
list_documents(s, latest_only) ==
    IF latest_only
    THEN IF \E i \in 1..Len(s) : Len(s[i].docs) > 0
         THEN [raised |-> "KeyError", documents |-> <<>>]
         ELSE [raised |-> "none",
               documents |-> [i \in 1..Len(s) |->
                                 [name |-> s[i].name, docs |-> None]]]
    ELSE [raised |-> "none", documents |-> s]

\* the where strings the claims about the predicate engine use: an equality
\* clause, a numeric comparison, and a string with no operator at all
QueryInputs == {"value = 'A'", "value.age > 25", "garbage"}

\* QueryParser.parse_query on QueryInputs: the first two match the basic
\* comparison pattern, "garbage" matches none of the four patterns and
\* gets ValueError("Invalid query syntax")
parse_query(query) ==
    CASE query = "value = 'A'" ->
             [raised |-> "none", field |-> "value", operator |-> "="]
      [] query = "value.age > 25" ->
             [raised |-> "none", field |-> "value.age", operator |-> ">"]
      [] OTHER ->
             [raised |-> "ValueError", field |-> None, operator |-> None]

\* KeyValueStore._get_field_value: the walk below 'value' returns None as
\* soon as the node is not a dict; the values of the model are None or a
\* string, so only the path "value" itself finds something
_get_field_value(doc, field_path) ==
    IF field_path = "value" THEN doc.value ELSE None

\* KeyValueStore.query_documents: its first statement reads
\* self.query_parser, an attribute __init__ never sets, so the call raises
\* AttributeError before the clause is parsed or the store is read
query_documents(s, where_clause, latest_only) ==
    [raised |-> "AttributeError", documents |-> <<>>]

\* http.py list_documents: it hands the collection to store.list_documents
\* or store.query_documents, which take no collection parameter; the call
\* raises TypeError, which "except ValueError" lets through
list_documents_handler(collection, latest_only, where) ==
    [status |-> 500, raised |-> "TypeError", documents |-> <<>>]

\* ------------------------------------------------------ specification ----
Init ==
    /\ store = <<>>
    /\ current_transaction_id = 0
    /\ highest_removed_tombstone_id = 0
    /\ disk = NoFile
    /\ appended = {}
    /\ discarded = {}
    /\ cursor = 0
    /\ received = <<>>

Upsert ==
    /\ \E p \in Paths, v \in Values : upsert(p[1], p[2], v)
    /\ UNCHANGED cvars

Delete ==
    /\ \E p \in Paths : delete(p[1], p[2])
    /\ UNCHANGED cvars

Evict ==
    /\ \E p \in Paths : evict(p[1], p[2])
    /\ UNCHANGED cvars

GarbageCollect ==
    /\ \E max_versions \in 0..MaxKeep, max_age_seconds \in MaxAgeInputs :
          garbage_collect(max_versions, max_age_seconds)
    /\ UNCHANGED cvars

Next == Upsert \/ Delete \/ Evict \/ GarbageCollect \/ Restart

Spec == Init /\ [][Next]_vars

\* the same program with a client that also writes to a collection whose
\* name is the snapshot's counter key
UpsertReserved ==
    /\ \E v \in Values : upsert("last_transaction_id", "x", v)
    /\ UNCHANGED cvars

NextReserved == Next \/ UpsertReserved

SpecReserved == Init /\ [][NextReserved]_vars

\* a client tails the feed: one GET /changes with its cursor as start=, and
\* the cursor moves to the transaction_id of the last change of the answer;
\* an answer with needs_rollback or without changes leaves the client as it
\* is
Poll ==
    /\ \E limit \in Limits :
          \E resp \in {get_changes(cursor, limit, None, None)} :
             IF resp.status = 200 /\ ~resp.needs_rollback
                /\ Len(resp.changes) > 0
             THEN /\ received' = received \o resp.changes
                  /\ cursor' = resp.changes[Len(resp.changes)].transaction_id
             ELSE UNCHANGED cvars
    /\ UNCHANGED <<store, current_transaction_id,
                   highest_removed_tombstone_id, disk, appended, discarded>>

\* writers append while the client tails; nothing is evicted or collected
NextTail == Upsert \/ Delete \/ Poll

\* the client keeps polling: a poll that would bring it changes is
\* eventually made
SpecTail == Init /\ [][NextTail]_vars /\ WF_vars(Poll)

\* ------------------------------------------------------------- claims ----
\* the records that were appended and not erased since
Live == appended \ discarded

\* C1: every record created by upsert or by a successful delete gets
\* transaction_id = current_transaction_id + 1, greater than every id
\* allocated before; ids are never decremented, reused or skipped (the ids
\* handed out so far are exactly 1..current_transaction_id, one record
\* each); evict, garbage_collect and a delete that returns false allocate
\* no id.
C1_TxidMonotonic ==
    /\ [](/\ {r.doc.transaction_id : r \in appended}
              = 1..current_transaction_id
          /\ Cardinality(appended) = current_transaction_id)
    /\ [][/\ current_transaction_id' >= current_transaction_id
          /\ Cardinality(appended' \ appended) <= 1
          /\ \A r \in appended' \ appended :
                /\ r.doc.transaction_id = current_transaction_id + 1
                /\ current_transaction_id' = current_transaction_id + 1
                /\ \A q \in appended :
                      q.doc.transaction_id < r.doc.transaction_id
          /\ current_transaction_id' # current_transaction_id
                => appended' # appended
          /\ (\/ Evict
              \/ GarbageCollect
              \/ \E p \in Paths : /\ ~delete_result(store, p[1], p[2])
                                   /\ delete(p[1], p[2]))
                => /\ current_transaction_id' = current_transaction_id
                   /\ appended' = appended]_vars

\* C1 witness: after an eviction, a delete appended a tombstone behind an
\* earlier record of its key and took the newest id
C1_Witness ==
    /\ discarded # {}
    /\ current_transaction_id >= 2
    /\ \E r \in Live : /\ r.doc.transaction_id = current_transaction_id
                       /\ r.doc.value = None
                       /\ r.doc.version >= 2

\* C2: for every start, limit, collection filter and predicate, the list
\* get_changes_after returns is sorted by strictly ascending transaction_id.
C2_FeedSorted ==
    \A start \in Starts, limit \in Limits, where \in WhereInputs,
       collection \in CollectionInputs :
        LET r == get_changes_after(store, start, limit, where, collection)
        IN r.raised = "none" =>
              \A i \in 1..(Len(r.changes) - 1) :
                  r.changes[i].doc.transaction_id
                      < r.changes[i + 1].doc.transaction_id

\* C2 witness: writes interleaved across keys, so that the scan meets the
\* records out of txid order and the feed returns all of them
C2_Witness ==
    LET r == get_changes_after(store, 0, Unbounded, None, None)
        scan == ScanOrder(store, None)
    IN /\ Len(r.changes) >= 3
       /\ \E i \in 1..(Len(scan) - 1) :
              scan[i].transaction_id > scan[i + 1].transaction_id

\* C3: get_changes_after(0, limit) with no filter returns exactly the first
\* min(limit, n) elements of the txid-ordered sequence of the n records
\* appended and not removed: the i-th returned record is the live record
\* with exactly i - 1 live records of smaller txid.
C3_FeedPrefix ==
    \A limit \in Limits :
        LET r == get_changes_after(store, 0, limit, None, None)
            n == Cardinality(Live)
        IN /\ r.raised = "none"
           /\ Len(r.changes) = IF limit < n THEN limit ELSE n
           /\ \A i \in 1..Len(r.changes) :
                 /\ \E q \in Live : q.doc = r.changes[i].doc
                 /\ Cardinality({q \in Live : q.doc.transaction_id
                        < r.changes[i].doc.transaction_id}) = i - 1

\* C3 witness: records were erased, and more records remain than the
\* smallest limit returns
C3_Witness ==
    /\ discarded # {}
    /\ Cardinality(Live) >= 2
    /\ Len(get_changes_after(store, 0, 1, None, None).changes) = 1

\* C4: for every start, predicate and collection filter,
\* get_changes_after(start, unbounded, where) equals the sub-list of
\* get_changes_after(0, unbounded, where) whose records have
\* transaction_id > start, in the same order.
C4_CursorCommutes ==
    \A start \in Starts, where \in WhereInputs,
       collection \in CollectionInputs :
        LET full == get_changes_after(store, 0, Unbounded, where, collection)
            part == get_changes_after(store, start, Unbounded, where,
                                      collection)
        IN /\ full.raised = "none"
           /\ part.raised = "none"
           /\ part.changes =
                  SelectSeq(full.changes,
                            LAMBDA e : e.doc.transaction_id > start)

\* C5: a change-feed request with start < highest_removed_tombstone_id is
\* answered with needs_rollback = true, no changes and max_transaction_id =
\* current_transaction_id; any other request is answered with
\* needs_rollback = false and a complete prefix: no record ever appended
\* (in the requested collection) with start < txid < last returned txid is
\* missing from it.
C5_RollbackSound ==
    \A start \in Starts, limit \in Limits, collection \in CollectionInputs :
        LET resp == get_changes(start, limit, None, collection)
            n == Len(resp.changes)
        IN IF start < highest_removed_tombstone_id
           THEN /\ resp.status = 200
                /\ resp.needs_rollback
                /\ resp.changes = <<>>
                /\ resp.max_transaction_id = current_transaction_id
           ELSE /\ resp.status = 200
                /\ ~resp.needs_rollback
                /\ \A r \in appended :
                      (/\ n > 0
                       /\ collection = None \/ r.collection = collection
                       /\ r.doc.transaction_id > start
                       /\ r.doc.transaction_id
                             < resp.changes[n].transaction_id)
                      => \E i \in 1..n : resp.changes[i].transaction_id
                                            = r.doc.transaction_id

\* C6: every record that was once appended and is no longer in the store
\* has transaction_id <= highest_removed_tombstone_id.
C6_WatermarkCoversDiscarded ==
    \A r \in appended :
        (\/ ~HasKey(store, r.collection, r.key)
         \/ \A i \in 1..Len(VersionsOf(store, r.collection, r.key)) :
               VersionsOf(store, r.collection, r.key)[i] # r.doc)
        => r.doc.transaction_id <= highest_removed_tombstone_id

\* C7: the records of each (collection, key) version log carry versions
\* exactly 1..len(log), in log order.
C7_VersionDensity ==
    \A ci \in 1..Len(store) :
        \A ki \in 1..Len(store[ci].docs) :
            LET versions == store[ci].docs[ki].versions
            IN \A i \in 1..Len(versions) : versions[i].version = i

\* C7 witness: a key was evicted and then written again at least twice
C7_Witness ==
    \E r \in discarded :
        /\ HasKey(store, r.collection, r.key)
        /\ Len(VersionsOf(store, r.collection, r.key)) >= 2

\* C8: a step in which evict(c, k) returns true leaves
\* highest_removed_tombstone_id >= the transaction_id of every record that
\* was in the erased log.
C8_EvictWatermark ==
    [][\A p \in Paths :
          (evict_result(store, p[1], p[2]) /\ evict(p[1], p[2]))
          => \A i \in 1..Len(VersionsOf(store, p[1], p[2])) :
                highest_removed_tombstone_id'
                    >= VersionsOf(store, p[1], p[2])[i].transaction_id]_vars

\* C8 witness: a log of two records or more was evicted while another
\* record was appended after them, and the watermark covers the log
C8_Witness ==
    \E r \in discarded, q \in discarded :
        /\ r.collection = q.collection /\ r.key = q.key
        /\ r.doc.transaction_id < q.doc.transaction_id
        /\ highest_removed_tombstone_id = q.doc.transaction_id
        /\ current_transaction_id > q.doc.transaction_id

\* C9: whenever the latest record of key k of a collection is a tombstone,
\* list_documents(collection, latest_only=true) answers, omits k, and holds
\* for every other key of the collection whose latest record is live that
\* record.
C9_ListOmitsDeleted ==
    \A c \in Collections, k \in Keys :
        (/\ HasKey(store, c, k)
         /\ VersionsOf(store, c, k)[Len(VersionsOf(store, c, k))].value
               = None)
        => LET r == list_documents_handler(c, TRUE, None)
           IN /\ r.status = 200
              /\ \A i \in 1..Len(r.documents) : r.documents[i].key # k
              /\ \A j \in Keys \ {k} :
                    (HasKey(store, c, j) /\ get(store, c, j, <<>>) # <<>>)
                    => \E i \in 1..Len(r.documents) :
                          /\ r.documents[i].key = j
                          /\ <<r.documents[i].doc>> = get(store, c, j, <<>>)

\* C10: get(collection, key) returns the most recently appended record of
\* the key (the one with the highest transaction_id) when it is live, and
\* absent when the collection or key is absent or that record is a
\* tombstone; get(collection, key, v) returns the record of version v
\* unless it is missing or a tombstone.
C10_Get ==
    \A c \in Collections \cup {"zz"}, k \in Keys :
        LET recs == {r \in appended : r.collection = c /\ r.key = k}
        IN /\ ~HasKey(store, c, k) =>
                /\ get(store, c, k, <<>>) = <<>>
                /\ \A v \in 1..Unbounded : get(store, c, k, <<v>>) = <<>>
           /\ HasKey(store, c, k) =>
                /\ \E r \in recs :
                      /\ \A q \in recs :
                            q.doc.transaction_id <= r.doc.transaction_id
                      /\ get(store, c, k, <<>>) =
                            IF r.doc.value = None THEN <<>> ELSE <<r.doc>>
                /\ \A v \in 1..Unbounded :
                      LET hits == {r \in recs \cap Live : r.doc.version = v}
                      IN /\ hits = {} => get(store, c, k, <<v>>) = <<>>
                         /\ \A h \in hits :
                               get(store, c, k, <<v>>) =
                                   IF h.doc.value = None THEN <<>>
                                   ELSE <<h.doc>>

\* C10 witness: a key whose first record is a tombstone and whose latest
\* record is live, written after an eviction
C10_Witness ==
    \E p \in Paths :
        /\ discarded # {}
        /\ HasKey(store, p[1], p[2])
        /\ Len(VersionsOf(store, p[1], p[2])) >= 2
        /\ get(store, p[1], p[2], <<>>) # <<>>
        /\ get(store, p[1], p[2], <<1>>) = <<>>

\* C11: delete(collection, key) on a key whose log exists appends exactly
\* one tombstone (value null, version = previous length + 1, fresh txid)
\* and returns true, also when the latest record is already a tombstone; on
\* an absent collection or key it returns false and leaves the store,
\* current_transaction_id and highest_removed_tombstone_id unchanged.
C11_Delete ==
    [][\A p \in Paths \cup {<<"zz", "x">>} :
          delete(p[1], p[2]) =>
             IF delete_result(store, p[1], p[2])
             THEN /\ VersionsOf(store', p[1], p[2]) =
                        Append(VersionsOf(store, p[1], p[2]),
                               [key |-> p[2], value |-> None,
                                version |->
                                    Len(VersionsOf(store, p[1], p[2])) + 1,
                                transaction_id |->
                                    current_transaction_id + 1])
                  /\ \A q \in appended :
                        q.doc.transaction_id < current_transaction_id + 1
                  /\ Cardinality(appended' \ appended) = 1
                  /\ \A q \in Paths \ {p} :
                        /\ HasKey(store', q[1], q[2])
                              = HasKey(store, q[1], q[2])
                        /\ HasKey(store, q[1], q[2]) =>
                              VersionsOf(store', q[1], q[2])
                                  = VersionsOf(store, q[1], q[2])
                  /\ highest_removed_tombstone_id'
                        = highest_removed_tombstone_id
             ELSE UNCHANGED <<store, current_transaction_id,
                              highest_removed_tombstone_id>>]_vars

\* C11 witness: a key that was deleted twice in a row
C11_Witness ==
    \E p \in Paths :
        /\ HasKey(store, p[1], p[2])
        /\ LET versions == VersionsOf(store, p[1], p[2])
               n == Len(versions)
           IN /\ n >= 3
              /\ versions[1].value # None
              /\ versions[n - 1].value = None
              /\ versions[n].value = None

\* C12: at any point after a write operation has completed, restarting the
\* engine from the snapshot file yields the in-memory collections, logs and
\* records and the in-memory counter, so the next allocated txid exceeds
\* every txid in the loaded store.
C12_SnapshotRoundTrip ==
    disk.exists =>
        LET loaded == _load_from_disk(disk)
        IN /\ loaded.store = store
           /\ loaded.current_transaction_id = current_transaction_id
           /\ \A ci \in 1..Len(loaded.store) :
                 \A ki \in 1..Len(loaded.store[ci].docs) :
                     \A i \in 1..Len(loaded.store[ci].docs[ki].versions) :
                         loaded.store[ci].docs[ki].versions[i].transaction_id
                             < _get_next_transaction_id(
                                   loaded.current_transaction_id)

\* C13: the operation paired with each record of the change feed depends on
\* that record alone: delete if its value is null (also at version 1),
\* otherwise insert if its version is 1, otherwise update; so a feed of an
\* upsert followed by a delete of a fresh key reads insert, delete.
C13_Operation ==
    \A start \in Starts, limit \in Limits, collection \in CollectionInputs :
        LET r == get_changes_after(store, start, limit, None, collection)
        IN \A i \in 1..Len(r.changes) :
              LET doc == r.changes[i].doc
                  op == r.changes[i].operation
              IN /\ (op = "delete") = (doc.value = None)
                 /\ (op = "insert") = (doc.value # None /\ doc.version = 1)
                 /\ (op = "update") = (doc.value # None /\ doc.version > 1)
                 /\ \A j \in 1..Len(r.changes) :
                       (/\ r.changes[j].doc.value = doc.value
                        /\ r.changes[j].doc.version = doc.version)
                       => r.changes[j].operation = op

\* C13 witness: the feed of a fresh key that was upserted and then deleted,
\* followed by a tombstone written as version 1 of another key
C13_Witness ==
    LET r == get_changes_after(store, 0, Unbounded, None, None)
    IN /\ Len(r.changes) = 3
       /\ r.changes[1].doc.transaction_id = 1
       /\ r.changes[1].operation = "insert"
       /\ r.changes[2].doc.transaction_id = 2
       /\ r.changes[2].doc.key = r.changes[1].doc.key
       /\ r.changes[2].doc.version = 2
       /\ r.changes[2].operation = "delete"
       /\ r.changes[3].doc.version = 1
       /\ r.changes[3].operation = "delete"

\* C14: highest_removed_tombstone_id starts at 0 and never decreases across
\* upsert, delete, evict and garbage_collect calls; upsert and delete leave
\* it unchanged.
C14_WatermarkMonotonic ==
    /\ highest_removed_tombstone_id = 0
    /\ [][/\ (Upsert \/ Delete \/ Evict \/ GarbageCollect)
                => highest_removed_tombstone_id'
                       >= highest_removed_tombstone_id
          /\ (Upsert \/ Delete)
                => highest_removed_tombstone_id'
                       = highest_removed_tombstone_id]_vars

\* C14 witness: two keys were evicted and the watermark is the txid of the
\* newer one while records were appended after both
C14_Witness ==
    \E r \in discarded, q \in discarded :
        /\ <<r.collection, r.key>> # <<q.collection, q.key>>
        /\ r.doc.transaction_id < q.doc.transaction_id
        /\ highest_removed_tombstone_id = q.doc.transaction_id
        /\ current_transaction_id > highest_removed_tombstone_id

\* C15: every append to a key (upsert or delete) assigns version = 1 + the
\* number of records appended for that key since the key was last absent or
\* evicted; no log ever holds two records with the same version, so
\* get(collection, key, v) identifies at most one record.
C15_VersionOrdinal ==
    /\ [](\A ci \in 1..Len(store) :
             \A ki \in 1..Len(store[ci].docs) :
                 LET versions == store[ci].docs[ki].versions
                 IN \A i \in 1..Len(versions), j \in 1..Len(versions) :
                       versions[i].version = versions[j].version => i = j)
    /\ [][\A r \in appended' \ appended :
             r.doc.version =
                 1 + Cardinality({q \in appended \ discarded :
                                     /\ q.collection = r.collection
                                     /\ q.key = r.key})]_vars

\* C15 witness: a key with two records was evicted and written again, and
\* its new log starts over at version 1
C15_Witness ==
    \E r \in discarded :
        /\ r.doc.version >= 2
        /\ HasKey(store, r.collection, r.key)
        /\ VersionsOf(store, r.collection, r.key)[1].version = 1
        /\ VersionsOf(store, r.collection, r.key)[1].transaction_id
              > r.doc.transaction_id

\* C16: the transaction ids of the records of each version log are strictly
\* increasing in log order, so the last record of a log carries the log's
\* maximum txid.
C16_LogTxidAscending ==
    \A ci \in 1..Len(store) :
        \A ki \in 1..Len(store[ci].docs) :
            LET versions == store[ci].docs[ki].versions
            IN /\ \A i \in 1..(Len(versions) - 1) :
                     versions[i].transaction_id
                         < versions[i + 1].transaction_id
               /\ \A i \in 1..Len(versions) :
                     versions[i].transaction_id
                         <= versions[Len(versions)].transaction_id

\* C16 witness: a log whose two records were appended around a write to
\* another key, with nothing evicted
C16_Witness ==
    /\ highest_removed_tombstone_id = 0
    /\ discarded = {}
    /\ \E p \in Paths :
          /\ HasKey(store, p[1], p[2])
          /\ Len(VersionsOf(store, p[1], p[2])) = 2
          /\ VersionsOf(store, p[1], p[2])[2].transaction_id
                = VersionsOf(store, p[1], p[2])[1].transaction_id + 2

\* C17: every key present in a collection has a non-empty version log and
\* every collection present in the store has at least one key, so evict
\* and get never operate on an empty log.
C17_NoEmptyLogOrCollection ==
    \A ci \in 1..Len(store) :
        /\ Len(store[ci].docs) > 0
        /\ \A ki \in 1..Len(store[ci].docs) :
              Len(store[ci].docs[ki].versions) > 0

\* C17 witness: the only key of a collection was evicted, the collection
\* is gone and another collection remains
C17_Witness ==
    /\ Len(store) >= 1
    /\ \E r \in discarded : ~HasCollection(store, r.collection)

\* C18: garbage_collect(max_versions) without max_age_seconds, on any store
\* and for every max_versions >= 0, completes without error and returns the
\* number of records it removed, which is the number of records that are
\* not among the newest max_versions of their log; it leaves every log with
\* exactly its newest min(len, max_versions) records, unmodified, and
\* allocates no txid.
C18_GarbageCollect ==
    /\ [](\A max_versions \in 0..MaxKeep :
             LET res == garbage_collect_result(store, max_versions, <<>>)
             IN /\ res.raised = "none"
                /\ res.removed_count =
                      Cardinality({r \in Live :
                          Cardinality({q \in Live :
                              /\ q.collection = r.collection
                              /\ q.key = r.key
                              /\ q.doc.transaction_id
                                    >= r.doc.transaction_id})
                          > max_versions}))
    /\ [][\A max_versions \in 0..MaxKeep :
             garbage_collect(max_versions, <<>>) =>
                /\ current_transaction_id' = current_transaction_id
                /\ \A p \in Paths :
                      HasKey(store, p[1], p[2]) =>
                         LET old == VersionsOf(store, p[1], p[2])
                             keep == IF Len(old) < max_versions
                                     THEN Len(old) ELSE max_versions
                         IN /\ HasKey(store', p[1], p[2])
                            /\ VersionsOf(store', p[1], p[2]) =
                                  SubSeq(old, Len(old) - keep + 1,
                                         Len(old))]_vars

C20_EvictFrame ==
    [][\A p \in (Collections \cup {"zz"}) \X Keys :
          evict(p[1], p[2]) =>
             IF evict_result(store, p[1], p[2])
             THEN /\ ~HasKey(store', p[1], p[2])
                  /\ HasCollection(store', p[1]) =
                        (\E k \in Keys \ {p[2]} : HasKey(store, p[1], k))
                  /\ \A q \in (Collections \X Keys) \ {p} :
                        /\ HasKey(store', q[1], q[2])
                              = HasKey(store, q[1], q[2])
                        /\ HasKey(store, q[1], q[2]) =>
                              VersionsOf(store', q[1], q[2])
                                  = VersionsOf(store, q[1], q[2])
                  /\ appended' = appended
                  /\ current_transaction_id' = current_transaction_id
                  /\ get(store', p[1], p[2], <<>>) = <<>>
                  /\ \A v \in 1..Unbounded :
                        get(store', p[1], p[2], <<v>>) = <<>>
                  /\ LET feed == get_changes_after(store', 0, Unbounded,
                                                   None, None).changes
                         old == VersionsOf(store, p[1], p[2])
                     IN \A i \in 1..Len(feed), j \in 1..Len(old) :
                           feed[i].doc # old[j]
             ELSE UNCHANGED <<store, highest_removed_tombstone_id>>]_vars

\* C20 witness: the second key of a collection was evicted with its two
\* records; the first key and its log are still there
C20_Witness ==
    \E r \in discarded :
        /\ r.doc.version = 2
        /\ ~HasKey(store, r.collection, r.key)
        /\ HasCollection(store, r.collection)
        /\ store[ColIndex(store, r.collection)].docs[1].versions[1]
              .transaction_id < r.doc.transaction_id

\* C21: a restart forgets the watermark but not the counter.  Whenever a
\* process starts from the snapshot, the watermark is 0 and the counter is
\* the snapshot's last_transaction_id (the counter of the old process), so
\* every change-feed request, whatever its cursor, is answered with
\* needs_rollback = false and holds only records that are still stored,
\* also when a record past the cursor was discarded before the restart.
C21_RestartForgetsWatermark ==
    [][Restart =>
          /\ highest_removed_tombstone_id' = 0
          /\ disk.exists =>
                /\ current_transaction_id' = disk.last_transaction_id
                /\ current_transaction_id' = current_transaction_id
          /\ \A start \in Starts :
                LET resp == get_changes_of(store', current_transaction_id',
                                           highest_removed_tombstone_id',
                                           start, Unbounded, None, None)
                IN /\ resp.status = 200
                   /\ resp.needs_rollback = FALSE
                   /\ resp.max_transaction_id = current_transaction_id
                   /\ \A r \in discarded :
                         \A i \in 1..Len(resp.changes) :
                            resp.changes[i].transaction_id
                                # r.doc.transaction_id]_vars

\* C21 witness: a restarted process (watermark 0, counter restored) answers
\* cursor 0 without needs_rollback although a record past the cursor was
\* discarded, and the feed it returns goes on past the discarded record
C21_Witness ==
    /\ highest_removed_tombstone_id = 0
    /\ current_transaction_id > 0
    /\ \E r \in discarded :
          LET resp == get_changes(0, Unbounded, None, None)
          IN /\ r.doc.transaction_id > 0
             /\ resp.needs_rollback = FALSE
             /\ \E i \in 1..Len(resp.changes) :
                   resp.changes[i].transaction_id > r.doc.transaction_id
             /\ \A i \in 1..Len(resp.changes) :
                   resp.changes[i].transaction_id # r.doc.transaction_id

\* the transaction ids of the records a store or a snapshot holds
TxidsOf(s) ==
    {ScanOrder(s, None)[i].transaction_id : i \in 1..Len(ScanOrder(s, None))}

C24_InvalidQuery ==
    \A w \in QueryInputs :
       parse_query(w).raised = "ValueError" =>
          /\ \A start \in Starts, collection \in CollectionInputs :
                /\ get_changes_after(store, start, Unbounded, w,
                                     collection).raised = "ValueError"
                /\ get_changes(start, Unbounded, w, collection).status = 400
          /\ \A latest_only \in BOOLEAN :
                /\ query_documents(store, w, latest_only).raised
                       = "ValueError"
                /\ \A collection \in Collections :
                      list_documents_handler(collection, latest_only,
                                             w).status = 400

\* C25: a numeric comparison over a store that holds a tombstone or a
\* record without the addressed field never raises.  The feed and the list
\* query complete, and they return no tombstone and no record that lacks
\* the field.
C25_NumericNeverRaises ==
    LET w == "value.age > 25"
        docs == ScanOrder(store, None)
    IN (\E i \in 1..Len(docs) :
           \/ docs[i].value = None
           \/ _get_field_value(docs[i], parse_query(w).field) = None) =>
       /\ parse_query(w).raised = "none"
       /\ \A start \in Starts, collection \in CollectionInputs :
             LET r == get_changes_after(store, start, Unbounded, w,
                                        collection)
             IN /\ r.raised = "none"
                /\ \A i \in 1..Len(r.changes) :
                      /\ r.changes[i].doc.value # None
                      /\ _get_field_value(r.changes[i].doc,
                                          parse_query(w).field) # None
       /\ \A latest_only \in BOOLEAN :
             query_documents(store, w, latest_only).raised = "none"

\* C26: a client that tails the feed while writers append and nothing is
\* evicted or collected has received, at every moment, exactly the records
\* with txid 1..cursor, each once and in ascending txid order, each one a
\* record that was appended; no poll of it is answered needs_rollback; and
\* when it keeps polling it ends with its cursor at current_transaction_id,
\* every appended record received, and empty answers.
C26_Tail ==
    /\ [](/\ cursor <= current_transaction_id
          /\ Len(received) = cursor
          /\ \A i \in 1..Len(received) :
                /\ received[i].transaction_id = i
                /\ \E r \in appended :
                      /\ r.doc.transaction_id = i
                      /\ r.key = received[i].key
                      /\ r.doc.value = received[i].value
                      /\ r.doc.version = received[i].version
          /\ \A limit \in Limits :
                LET resp == get_changes(cursor, limit, None, None)
                IN /\ resp.status = 200
                   /\ resp.needs_rollback = FALSE
                   /\ (resp.changes = <<>>)
                         = (cursor = current_transaction_id))
    /\ <>[](/\ cursor = current_transaction_id
            /\ Len(received) = Cardinality(appended)
            /\ \A limit \in Limits :
                  get_changes(cursor, limit, None, None).changes = <<>>)

\* C26 witness: the client caught up after three polls that each brought
\* one record, the last of them a tombstone
C26_Witness ==
    /\ cursor = current_transaction_id
    /\ Len(received) = MaxTx
    /\ received[MaxTx].operation = "delete"
    /\ get_changes(cursor, 1, None, None).changes = <<>>

====
